---- MODULE Spec2Model ----
(***************************************************************************)
(* Model of main.py: the polling document translator.                      *)
(*                                                                         *)
(* The process lists the watch folder, takes the first regular file of     *)
(* the listing, extracts its text with the extractor of its extension,     *)
(* translates the text, prints the results and moves the file to the       *)
(* processed folder; then it sleeps and starts over.                       *)
(*                                                                         *)
(* Strings are sequences of one-character strings, so that strip(),        *)
(* lower(), splitext() and join() are computed and not assumed.            *)
(***************************************************************************)
EXTENDS Integers, Sequences, FiniteSets, TLC

----------------------------------------------------------------------------
(* Bounds of the model *)

MaxDrops == 2
MaxPages == 2
MaxParas == 2
MaxSlides == 2
MaxShapes == 2
MaxInitial == 3

----------------------------------------------------------------------------
(* Python values *)

None == <<"None">>

SP == " "
NL == "\n"

Whitespace == {SP, NL}

Truthy(v) == v /= None /\ v /= <<>>

RECURSIVE LStrip(_)
LStrip(s) ==
    IF s = <<>> THEN <<>>
    ELSE IF Head(s) \in Whitespace THEN LStrip(Tail(s)) ELSE s

RECURSIVE RStrip(_)
RStrip(s) ==
    IF s = <<>> THEN <<>>
    ELSE IF s[Len(s)] \in Whitespace THEN RStrip(SubSeq(s, 1, Len(s) - 1)) ELSE s

Strip(s) == RStrip(LStrip(s))

RECURSIVE Join(_)
Join(parts) ==
    IF parts = <<>> THEN <<>>
    ELSE IF Len(parts) = 1 THEN parts[1]
    ELSE parts[1] \o <<NL>> \o Join(Tail(parts))

LowerChar(c) ==
    CASE c = "P" -> "p"
      [] c = "N" -> "n"
      [] c = "G" -> "g"
      [] c = "D" -> "d"
      [] c = "F" -> "f"
      [] c = "T" -> "t"
      [] c = "X" -> "x"
      [] c = "J" -> "j"
      [] c = "E" -> "e"
      [] c = "I" -> "i"
      [] c = "O" -> "o"
      [] c = "C" -> "c"
      [] c = "B" -> "b"
      [] c = "M" -> "m"
      [] OTHER -> c

Lower(s) == [i \in 1..Len(s) |-> LowerChar(s[i])]

RECURSIVE Rep(_, _)
Rep(c, n) == IF n = 0 THEN <<>> ELSE <<c>> \o Rep(c, n - 1)

RECURSIVE SeqsUpTo(_, _)
SeqsUpTo(S, n) ==
    IF n = 0 THEN {<<>>}
    ELSE LET shorter == SeqsUpTo(S, n - 1)
         IN  shorter \cup {Append(s, x) : s \in {t \in shorter : Len(t) = n - 1}, x \in S}

----------------------------------------------------------------------------
(* os.path.splitext on a bare file name *)

RDot(p) ==
    LET dots == {i \in 1..Len(p) : p[i] = "."}
    IN  IF dots = {} THEN 0 ELSE CHOOSE i \in dots : \A j \in dots : j <= i

SplitExt(p) ==
    LET dotIndex == RDot(p)
    IN  IF dotIndex > 0 /\ \E i \in 1..(dotIndex - 1) : p[i] /= "."
        THEN SubSeq(p, dotIndex, Len(p))
        ELSE <<>>

----------------------------------------------------------------------------
(* File names that can appear in the watch folder *)

n_png == <<"a", ".", "p", "n", "g">>
n_jpg == <<"a", ".", "j", "p", "g">>
n_Jpeg == <<"a", ".", "J", "p", "e", "g">>
n_tiff == <<"a", ".", "t", "i", "f", "f">>
n_bmp == <<"a", ".", "b", "m", "p">>
n_GIF == <<"a", ".", "G", "I", "F">>
n_txt == <<"a", ".", "T", "x", "t">>
n_pdf == <<"a", ".", "p", "d", "f">>
n_PDF == <<"a", ".", "P", "D", "F">>
n_docx == <<"a", ".", "d", "o", "c", "x">>
n_pptx == <<"a", ".", "P", "p", "t", "x">>
n_xyz == <<"a", ".", "x", "y", "z">>
n_noext == <<"a">>
n_dotfile == <<".", "t", "x", "t">>
n_two == <<"a", ".", "t", "x", "t", ".", "p", "d", "f">>

Names ==
    {n_png, n_jpg, n_Jpeg, n_tiff, n_bmp, n_GIF, n_txt,
     n_pdf, n_PDF, n_docx, n_pptx, n_xyz, n_noext, n_dotfile, n_two}

(* PROCESSED_FOLDER is a subdirectory of FOLDER_TO_WATCH *)
ProcessedDirName == <<"p", "r", "o", "c", "e", "s", "s", "e", "d">>

----------------------------------------------------------------------------
(* Dispatch on the extension, lines 138-156 *)

ImageExtensions ==
    {<<".", "p", "n", "g">>, <<".", "j", "p", "g">>, <<".", "j", "p", "e", "g">>,
     <<".", "t", "i", "f", "f">>, <<".", "b", "m", "p">>, <<".", "g", "i", "f">>}

(* line 138 without .lower() *)
Extension_CaseSensitive(filename) == SplitExt(filename)

Extension(filename) == Lower(SplitExt(filename))

Classify(file_extension) ==
    IF file_extension \in ImageExtensions THEN "image"
    ELSE IF file_extension = <<".", "t", "x", "t">> THEN "text"
    ELSE IF file_extension = <<".", "p", "d", "f">> THEN "pdf"
    ELSE IF file_extension = <<".", "d", "o", "c", "x">> THEN "docx"
    ELSE IF file_extension = <<".", "p", "p", "t", "x">> THEN "pptx"
    ELSE "unsupported"

----------------------------------------------------------------------------
(* What the libraries can find in a file *)

OcrThreshold == 20

Raises == <<"Raises">>

RawTexts == {<<>>, <<SP>>, <<"x">>, <<SP, "y", NL>>}

(* pytesseract.image_to_string: a text, TesseractNotFoundError or another error *)
OcrOutcomes ==
    [err : {"none"}, text : RawTexts]
        \cup {[err |-> "notfound", text |-> <<>>], [err |-> "other", text |-> <<>>]}

(* open(..., encoding='utf-8').read(): a text, or an IO or decode error *)
ReadOutcomes ==
    [err : {"none"}, text : RawTexts] \cup {[err |-> "error", text |-> <<>>]}

(* a PDF page: page.get_text() or Raises, whether get_pixmap/frombytes work, OCR of the raster *)
PageKinds ==
    {[direct |-> Rep("x", OcrThreshold), raster |-> TRUE, ocr |-> [err |-> "none", text |-> <<"x">>]],
     [direct |-> Rep("x", OcrThreshold + 1) \o <<NL>>, raster |-> FALSE, ocr |-> [err |-> "none", text |-> <<>>]],
     [direct |-> <<SP>> \o Rep("x", OcrThreshold - 1) \o <<NL>>, raster |-> TRUE, ocr |-> [err |-> "none", text |-> <<"y", NL>>]],
     [direct |-> Rep("x", OcrThreshold - 1), raster |-> TRUE, ocr |-> [err |-> "other", text |-> <<>>]],
     [direct |-> <<>>, raster |-> TRUE, ocr |-> [err |-> "notfound", text |-> <<>>]],
     [direct |-> <<NL>>, raster |-> FALSE, ocr |-> [err |-> "none", text |-> <<"x">>]],
     [direct |-> Raises, raster |-> TRUE, ocr |-> [err |-> "none", text |-> <<"x">>]]}

(* fitz.open: it raises, or a document of at most n pages *)
PdfDocumentsOf(n) ==
    [err : {"none"}, pages : SeqsUpTo(PageKinds, n)]
        \cup {[err |-> "error", pages |-> <<>>]}

PdfDocuments == PdfDocumentsOf(MaxPages)

ParaTexts == {<<>>, <<"x">>, <<SP, "y">>}

(* docx.Document: it raises, or a document of at most n paragraphs *)
DocxDocumentsOf(n) ==
    [err : {"none"}, paras : SeqsUpTo(ParaTexts, n)]
        \cup {[err |-> "error", paras |-> <<>>]}

DocxDocuments == DocxDocumentsOf(MaxParas)

(* a shape either has a text attribute or not *)
ShapeKinds ==
    {[has_text |-> FALSE, text |-> <<>>], [has_text |-> TRUE, text |-> <<"x">>],
     [has_text |-> TRUE, text |-> <<SP, "y">>]}

(* pptx.Presentation: it raises, or a deck of at most n slides of at most m shapes *)
PptxDocumentsOf(n, m) ==
    [err : {"none"}, slides : SeqsUpTo(SeqsUpTo(ShapeKinds, m), n)]
        \cup {[err |-> "error", slides |-> <<>>]}

PptxDocuments == PptxDocumentsOf(MaxSlides, MaxShapes)

NoContent == [err |-> "unread"]

Contents(capability) ==
    CASE capability = "image" -> OcrOutcomes
      [] capability = "text" -> ReadOutcomes
      [] capability = "pdf" -> PdfDocuments
      [] capability = "docx" -> DocxDocuments
      [] capability = "pptx" -> PptxDocuments
      [] OTHER -> {NoContent}

(* the files of the polling runs are documents of at most one page, paragraph, slide and
   shape; the larger ones are read in SpecExtract *)
WatchedContents(capability) ==
    CASE capability = "image" -> OcrOutcomes
      [] capability = "text" -> ReadOutcomes
      [] capability = "pdf" -> PdfDocumentsOf(1)
      [] capability = "docx" -> DocxDocumentsOf(1)
      [] capability = "pptx" -> PptxDocumentsOf(1, 1)
      [] OTHER -> {NoContent}

----------------------------------------------------------------------------
(* The extractors.  Each gives its own name (extractor), the value it      *)
(* returns (text), what it printed (reports), whether an except branch ran *)
(* (failed), whether an exception left the function (raised), and the      *)
(* pages it rasterized and passed to OCR.                                  *)

Extracted(extractor, text, reports, failed, raster_calls, ocr_calls) ==
    [extractor |-> extractor, text |-> text, reports |-> reports, failed |-> failed,
     raised |-> FALSE, raster_calls |-> raster_calls, ocr_calls |-> ocr_calls]

extract_text_from_image(outcome) ==
    IF outcome.err = "notfound"
    THEN Extracted("extract_text_from_image", <<>>, <<"tesseract_not_found">>, TRUE, <<>>, <<>>)
    ELSE IF outcome.err = "other"
    THEN Extracted("extract_text_from_image", <<>>, <<"ocr_error">>, TRUE, <<>>, <<>>)
    ELSE Extracted("extract_text_from_image", Strip(outcome.text), <<>>, FALSE, <<>>, <<>>)

(* read_text_from_file without its except clause *)
read_text_from_file_uncaught(outcome) ==
    IF outcome.err = "none"
    THEN Extracted("read_text_from_file", Strip(outcome.text), <<>>, FALSE, <<>>, <<>>)
    ELSE [Extracted("read_text_from_file", None, <<>>, TRUE, <<>>, <<>>) EXCEPT !.raised = TRUE]

read_text_from_file(outcome) ==
    IF outcome.err = "none"
    THEN Extracted("read_text_from_file", Strip(outcome.text), <<>>, FALSE, <<>>, <<>>)
    ELSE Extracted("read_text_from_file", None, <<"read_error">>, TRUE, <<>>, <<>>)

(* the test of line 63 with <= for < *)
NeedsOcr_Inclusive(page_text) == Len(page_text) <= OcrThreshold

NeedsOcr(page_text) == Len(page_text) < OcrThreshold

(* the loop over the pages, lines 60-70; ok turns FALSE when a call raises *)
RECURSIVE PdfLoop(_, _, _)
PdfLoop(pages, page_num, acc) ==
    IF page_num > Len(pages) \/ ~acc.ok THEN acc
    ELSE LET page == pages[page_num]
         IN  IF page.direct = Raises
             THEN [acc EXCEPT !.ok = FALSE]
             ELSE LET page_text == Strip(page.direct)
                  IN  IF NeedsOcr(page_text)
                      THEN IF page.raster
                           THEN LET o == extract_text_from_image(page.ocr)
                                IN  PdfLoop(pages, page_num + 1,
                                        [acc EXCEPT !.full_text = Append(@, o.text),
                                                    !.reports = @ \o <<"page_ocr">> \o o.reports,
                                                    !.raster_calls = Append(@, page_num),
                                                    !.ocr_calls = Append(@, page_num)])
                           ELSE [acc EXCEPT !.ok = FALSE,
                                            !.reports = Append(@, "page_ocr"),
                                            !.raster_calls = Append(@, page_num)]
                      ELSE PdfLoop(pages, page_num + 1,
                               [acc EXCEPT !.full_text = Append(@, page_text)])

extract_text_from_pdf(doc) ==
    IF doc.err /= "none"
    THEN Extracted("extract_text_from_pdf", None, <<"pdf_error">>, TRUE, <<>>, <<>>)
    ELSE LET r == PdfLoop(doc.pages, 1,
                      [ok |-> TRUE, full_text |-> <<>>, reports |-> <<>>,
                       raster_calls |-> <<>>, ocr_calls |-> <<>>])
         IN  IF r.ok
             THEN Extracted("extract_text_from_pdf", Strip(Join(r.full_text)), r.reports, FALSE, r.raster_calls, r.ocr_calls)
             ELSE Extracted("extract_text_from_pdf", None, Append(r.reports, "pdf_error"), TRUE, r.raster_calls, r.ocr_calls)

extract_text_from_docx(doc) ==
    IF doc.err /= "none"
    THEN Extracted("extract_text_from_docx", None, <<"docx_error">>, TRUE, <<>>, <<>>)
    ELSE Extracted("extract_text_from_docx", Strip(Join(doc.paras)), <<>>, FALSE, <<>>, <<>>)

RECURSIVE ShapeTexts(_)
ShapeTexts(shapes) ==
    IF shapes = <<>> THEN <<>>
    ELSE (IF Head(shapes).has_text THEN <<Head(shapes).text>> ELSE <<>>)
             \o ShapeTexts(Tail(shapes))

(* the slides walked from the last to the first *)
RECURSIVE SlideTexts_LastSlideFirst(_)
SlideTexts_LastSlideFirst(slides) ==
    IF slides = <<>> THEN <<>>
    ELSE SlideTexts_LastSlideFirst(Tail(slides)) \o ShapeTexts(Head(slides))

RECURSIVE SlideTexts(_)
SlideTexts(slides) ==
    IF slides = <<>> THEN <<>>
    ELSE ShapeTexts(Head(slides)) \o SlideTexts(Tail(slides))

extract_text_from_pptx(doc) ==
    IF doc.err /= "none"
    THEN Extracted("extract_text_from_pptx", None, <<"pptx_error">>, TRUE, <<>>, <<>>)
    ELSE Extracted("extract_text_from_pptx", Strip(Join(SlideTexts(doc.slides))), <<>>, FALSE, <<>>, <<>>)

NotExtracted == Extracted("none", None, <<>>, FALSE, <<>>, <<>>)

(* lines 140-156: the branch taken, the extractor it calls and what it prints first *)
Extract(capability, c) ==
    LET r == CASE capability = "image" -> extract_text_from_image(c)
               [] capability = "text" -> read_text_from_file(c)
               [] capability = "pdf" -> extract_text_from_pdf(c)
               [] capability = "docx" -> extract_text_from_docx(c)
               [] capability = "pptx" -> extract_text_from_pptx(c)
               [] OTHER -> NotExtracted
    IN  [r EXCEPT !.reports = <<capability>> \o @]

(* translator.translate: a translation with the detected language, or an error *)
ServiceOutcomes == {"ok", "error"}

(* translate_text_to_english without the test of line 106 *)
translate_text_unguarded(text, service) ==
    IF service = "ok"
    THEN [info |-> <<"e", "n">> \o text, calls |-> 1, reports |-> <<>>]
    ELSE [info |-> None, calls |-> 1, reports |-> <<"translation_failed">>]

translate_text_to_english(text, service) ==
    IF ~Truthy(text)
    THEN [info |-> None, calls |-> 0, reports |-> <<>>]
    ELSE IF service = "ok"
    THEN [info |-> <<"e", "n">> \o text, calls |-> 1, reports |-> <<>>]
    ELSE [info |-> None, calls |-> 1, reports |-> <<"translation_failed">>]

----------------------------------------------------------------------------
(* The state *)

VARIABLES
    pc,               \* where the process is: loop, dispatch, report, archive, sleep, exited, crashed
    stoppedAt,        \* the position at which KeyboardInterrupt arrived, "none" before
    watch,            \* names of the regular files in FOLDER_TO_WATCH
    processed,        \* names of the files in PROCESSED_FOLDER
    drops,            \* number of files dropped into the watch folder so far
    archived,         \* names moved to processed and not dropped again since
    files,            \* line 124, of the current or last cycle; empty when os.listdir raised
    taken,            \* the files the current call of process_files_in_folder has selected
    filename,         \* line 132, None while no file is selected in the cycle
    content,          \* what the libraries found in the selected file
    extraction,       \* the result of the extractor call, original_text is extraction.text
    translation_info, \* line 160
    translate_calls,  \* calls of translator.translate in the cycle
    move_attempts,    \* calls of os.rename in the cycle
    move_result,      \* none, moved, failed
    reports           \* what the cycle printed

vars ==
    <<pc, stoppedAt, watch, processed, drops, archived, files, taken, filename,
      content, extraction, translation_info, translate_calls, move_attempts, move_result, reports>>

envVars == <<watch, processed, drops, archived>>
cycleVars ==
    <<files, taken, filename, content, extraction, translation_info, translate_calls,
      move_attempts, move_result, reports>>

original_text == extraction.text

Range(s) == {s[i] : i \in 1..Len(s)}

RECURSIVE Perms(_)
Perms(S) ==
    IF S = {} THEN {<<>>}
    ELSE UNION {{<<x>> \o p : p \in Perms(S \ {x})} : x \in S}

(* os.listdir(FOLDER_TO_WATCH) returns, raises FileNotFoundError or raises another
   OSError (PermissionError, NotADirectoryError) *)
ListdirOutcomes == {"listed", "FileNotFoundError", "OSError"}

(* os.listdir(FOLDER_TO_WATCH): the entries in arbitrary order *)
Listings == Perms(watch \cup {ProcessedDirName})

(* a listing taken without the isfile test *)
IsFile_AnyEntry(entry) == TRUE

(* os.path.isfile *)
IsFile(entry) == entry \in watch

RECURSIVE Filter(_)
Filter(listing) ==
    IF listing = <<>> THEN <<>>
    ELSE (IF IsFile(Head(listing)) THEN <<Head(listing)>> ELSE <<>>) \o Filter(Tail(listing))

(* line 132 *)
SelectFile(fs) == fs[1]

Init ==
    /\ pc = "loop"
    /\ stoppedAt = "none"
    /\ watch = {}
    /\ processed = {}
    /\ drops = 0
    /\ archived = {}
    /\ files = <<>>
    /\ taken = <<>>
    /\ filename = None
    /\ content = NoContent
    /\ extraction = NotExtracted
    /\ translation_info = None
    /\ translate_calls = 0
    /\ move_attempts = 0
    /\ move_result = "none"
    /\ reports = <<>>

----------------------------------------------------------------------------
(* process_files_in_folder *)

(* lines 123-136: the folder is listed and the first file taken *)
Scan ==
    /\ pc = "loop"
    /\ UNCHANGED <<stoppedAt, envVars, content, extraction, translation_info, translate_calls,
                   move_attempts, move_result>>
    /\ \E outcome \in ListdirOutcomes :
       IF outcome = "FileNotFoundError"
       THEN /\ files' = <<>>
            /\ filename' = None
            /\ reports' = <<"watch_folder_not_found">>
            /\ pc' = "sleep"
            /\ UNCHANGED taken
       ELSE IF outcome = "OSError"
       THEN /\ files' = <<>>
            /\ filename' = None
            /\ reports' = <<>>
            /\ pc' = "crashed"
            /\ UNCHANGED taken
       ELSE \E listing \in Listings :
            /\ files' = Filter(listing)
            /\ IF files' = <<>>
               THEN /\ filename' = None
                    /\ reports' = <<>>
                    /\ pc' = "sleep"
                    /\ UNCHANGED taken
               ELSE /\ filename' = SelectFile(files')
                    /\ taken' = Append(taken, filename')
                    /\ reports' = <<"found">>
                    /\ pc' = "dispatch"

(* lines 138-156 *)
Dispatch ==
    /\ pc = "dispatch"
    /\ \E c \in WatchedContents(Classify(Extension(filename))) :
        /\ content' = c
        /\ extraction' = Extract(Classify(Extension(filename)), c)
    /\ reports' = reports \o extraction'.reports
    /\ pc' = IF extraction'.raised THEN "crashed" ELSE "report"
    /\ UNCHANGED <<stoppedAt, envVars, files, taken, filename, translation_info,
                   translate_calls, move_attempts, move_result>>

(* Report returning early when there is no text, leaving the file unmoved *)
Report_ReturnsWithoutText ==
    /\ pc = "report"
    /\ IF Truthy(original_text)
       THEN \E service \in ServiceOutcomes :
            LET t == translate_text_to_english(original_text, service)
            IN  /\ translation_info' = t.info
                /\ translate_calls' = translate_calls + t.calls
                /\ reports' = reports \o <<"original_text">> \o t.reports
                                  \o (IF Truthy(t.info) THEN <<"translated_text">> ELSE <<>>)
                /\ pc' = "archive"
       ELSE /\ reports' = Append(reports, "no_text")
            /\ pc' = "sleep"
            /\ UNCHANGED <<translation_info, translate_calls>>
    /\ UNCHANGED <<stoppedAt, envVars, files, taken, filename, content, extraction,
                   move_attempts, move_result>>

(* Report printing the original text only once the translation is there *)
Report_PrintsAfterTranslation ==
    /\ pc = "report"
    /\ IF Truthy(original_text)
       THEN \E service \in ServiceOutcomes :
            LET t == translate_text_to_english(original_text, service)
            IN  /\ translation_info' = t.info
                /\ translate_calls' = translate_calls + t.calls
                /\ reports' = reports \o t.reports
                                  \o (IF Truthy(t.info)
                                      THEN <<"original_text", "translated_text">> ELSE <<>>)
       ELSE /\ reports' = Append(reports, "no_text")
            /\ UNCHANGED <<translation_info, translate_calls>>
    /\ pc' = "archive"
    /\ UNCHANGED <<stoppedAt, envVars, files, taken, filename, content, extraction,
                   move_attempts, move_result>>

(* lines 158-165 *)
Report ==
    /\ pc = "report"
    /\ IF Truthy(original_text)
       THEN \E service \in ServiceOutcomes :
            LET t == translate_text_to_english(original_text, service)
            IN  /\ translation_info' = t.info
                /\ translate_calls' = translate_calls + t.calls
                /\ reports' = reports \o <<"original_text">> \o t.reports
                                  \o (IF Truthy(t.info) THEN <<"translated_text">> ELSE <<>>)
       ELSE /\ reports' = Append(reports, "no_text")
            /\ UNCHANGED <<translation_info, translate_calls>>
    /\ pc' = "archive"
    /\ UNCHANGED <<stoppedAt, envVars, files, taken, filename, content, extraction,
                   move_attempts, move_result>>

(* os.rename as on POSIX, where an existing destination file is replaced *)
CanRename_ReplacesDestination(name) == name \in watch

(* os.rename can succeed: on Windows, the platform of the paths of lines 14-16, it
   raises FileExistsError when the destination exists *)
CanRename(name) ==
    /\ name \in watch
    /\ name \notin processed

(* Move copying the file instead of renaming it *)
Move_Copies ==
    /\ pc = "archive"
    /\ move_attempts' = move_attempts + 1
    /\ \/ /\ CanRename(filename)
          /\ processed' = processed \cup {filename}
          /\ archived' = archived \cup {filename}
          /\ move_result' = "moved"
          /\ reports' = Append(reports, "moved")
          /\ UNCHANGED watch
       \/ /\ move_result' = "failed"
          /\ reports' = Append(reports, "move_error")
          /\ UNCHANGED <<watch, processed, archived>>
    /\ pc' = "sleep"
    /\ UNCHANGED <<stoppedAt, drops, files, taken, filename, content, extraction,
                   translation_info, translate_calls>>

(* Move inside a loop over all the files of the listing *)
Move_ThenNextFile ==
    /\ pc = "archive"
    /\ move_attempts' = move_attempts + 1
    /\ \/ /\ CanRename(filename)
          /\ watch' = watch \ {filename}
          /\ processed' = processed \cup {filename}
          /\ archived' = archived \cup {filename}
          /\ move_result' = "moved"
          /\ reports' = Append(reports, "moved")
       \/ /\ move_result' = "failed"
          /\ reports' = Append(reports, "move_error")
          /\ UNCHANGED <<watch, processed, archived>>
    /\ IF Len(taken) < Len(files)
       THEN /\ filename' = files[Len(taken) + 1]
            /\ taken' = Append(taken, filename')
            /\ pc' = "dispatch"
       ELSE /\ pc' = "sleep"
            /\ UNCHANGED <<filename, taken>>
    /\ UNCHANGED <<stoppedAt, drops, files, content, extraction,
                   translation_info, translate_calls>>

(* Move archiving the file under its name in lower case *)
Move_LowersTheName ==
    /\ pc = "archive"
    /\ move_attempts' = move_attempts + 1
    /\ \/ /\ CanRename(filename)
          /\ watch' = watch \ {filename}
          /\ processed' = processed \cup {Lower(filename)}
          /\ archived' = archived \cup {Lower(filename)}
          /\ move_result' = "moved"
          /\ reports' = Append(reports, "moved")
       \/ /\ move_result' = "failed"
          /\ reports' = Append(reports, "move_error")
          /\ UNCHANGED <<watch, processed, archived>>
    /\ pc' = "sleep"
    /\ UNCHANGED <<stoppedAt, drops, files, taken, filename, content, extraction,
                   translation_info, translate_calls>>

(* lines 167-172 *)
Move ==
    /\ pc = "archive"
    /\ move_attempts' = move_attempts + 1
    /\ \/ /\ CanRename(filename)
          /\ watch' = watch \ {filename}
          /\ processed' = processed \cup {filename}
          /\ archived' = archived \cup {filename}
          /\ move_result' = "moved"
          /\ reports' = Append(reports, "moved")
       \/ /\ move_result' = "failed"
          /\ reports' = Append(reports, "move_error")
          /\ UNCHANGED <<watch, processed, archived>>
    /\ pc' = "sleep"
    /\ UNCHANGED <<stoppedAt, drops, files, taken, filename, content, extraction,
                   translation_info, translate_calls>>

----------------------------------------------------------------------------
(* The main loop, lines 175-182 *)

(* a single pass in place of the while True loop *)
Wake_Once ==
    /\ pc = "sleep"
    /\ pc' = "exited"
    /\ UNCHANGED <<stoppedAt, envVars, cycleVars>>

(* time.sleep(5) returns and the next cycle begins; files and filename keep the last
   cycle's listing and choice until the next listing replaces them *)
Wake ==
    /\ pc = "sleep"
    /\ pc' = "loop"
    /\ content' = NoContent
    /\ extraction' = NotExtracted
    /\ translation_info' = None
    /\ translate_calls' = 0
    /\ move_attempts' = 0
    /\ move_result' = "none"
    /\ reports' = <<>>
    /\ taken' = <<>>
    /\ UNCHANGED <<stoppedAt, envVars, files, filename>>

Running == pc \notin {"exited", "crashed"}

(* Ctrl+C: KeyboardInterrupt is raised where the process is and caught at line 181 *)
Interrupt ==
    /\ Running
    /\ stoppedAt' = pc
    /\ pc' = "exited"
    /\ UNCHANGED <<envVars, cycleVars>>

----------------------------------------------------------------------------
(* The environment *)

DropFile ==
    /\ Running
    /\ drops < MaxDrops
    /\ \E name \in Names \ watch :
        /\ watch' = watch \cup {name}
        /\ archived' = archived \ {name}
    /\ drops' = drops + 1
    /\ UNCHANGED <<pc, stoppedAt, processed, cycleVars>>

Next ==
    \/ Scan
    \/ Dispatch
    \/ Report
    \/ Move
    \/ Wake
    \/ Interrupt
    \/ DropFile

Spec == Init /\ [][Next]_vars

----------------------------------------------------------------------------
(* The extractors on their own: one call of the extractor of a file name   *)
(* on every document within the bounds.                                    *)

(* The process left to run on a folder nobody adds to: the watch folder  *)
(* and processed start with some files, no Ctrl+C arrives, os.listdir     *)
(* returns the entries of the folder (lines 123-124), and every call      *)
(* returns, so the loop of lines 177-180 takes its next step whenever it  *)
(* has one.                                                               *)
InitialOrder == <<n_txt, n_png, n_xyz, n_pdf, n_docx, n_pptx>>

InitialNames == {InitialOrder[i] : i \in 1..MaxInitial}

InitLive ==
    /\ pc = "loop"
    /\ stoppedAt = "none"
    /\ watch \in SUBSET InitialNames
    /\ processed \in SUBSET InitialNames
    /\ drops = 0
    /\ archived = {}
    /\ files = <<>>
    /\ taken = <<>>
    /\ filename = None
    /\ content = NoContent
    /\ extraction = NotExtracted
    /\ translation_info = None
    /\ translate_calls = 0
    /\ move_attempts = 0
    /\ move_result = "none"
    /\ reports = <<>>

ScanListed ==
    /\ Scan
    /\ pc' \in {"sleep", "dispatch"}
    /\ reports' /= <<"watch_folder_not_found">>

NextLive ==
    \/ ScanListed
    \/ Dispatch
    \/ Report
    \/ Move
    \/ Wake

Fairness ==
    /\ WF_vars(ScanListed)
    /\ WF_vars(Dispatch)
    /\ WF_vars(Report)
    /\ WF_vars(Move)
    /\ WF_vars(Wake)

SpecLive == InitLive /\ [][NextLive]_vars /\ Fairness

InitExtract ==
    /\ pc = "call"
    /\ stoppedAt = "none"
    /\ filename \in Names
    /\ watch = {filename}
    /\ processed = {}
    /\ drops = 1
    /\ archived = {}
    /\ files = <<filename>>
    /\ taken = <<filename>>
    /\ content \in Contents(Classify(Extension(filename)))
    /\ extraction = NotExtracted
    /\ translation_info = None
    /\ translate_calls = 0
    /\ move_attempts = 0
    /\ move_result = "none"
    /\ reports = <<>>

CallExtractor ==
    /\ pc = "call"
    /\ extraction' = Extract(Classify(Extension(filename)), content)
    /\ reports' = extraction'.reports
    /\ pc' = "returned"
    /\ UNCHANGED <<stoppedAt, envVars, files, taken, filename, content, translation_info,
                   translate_calls, move_attempts, move_result>>

NextExtract == CallExtractor

SpecExtract == InitExtract /\ [][NextExtract]_vars


----------------------------------------------------------------------------
(* Properties *)

(* process_files_in_folder has returned and its cycle is still on record *)
Returned == pc = "sleep" \/ (pc = "exited" /\ stoppedAt = "sleep")

(* a file is selected and the cycle is between lines 133 and 172 *)
InFlight == pc \in {"dispatch", "report", "archive"}

Selected == taken /= <<>>

Has(seq, x) == \E i \in 1..Len(seq) : seq[i] = x

Count(seq, x) == Cardinality({i \in 1..Len(seq) : seq[i] = x})

OutcomeKinds ==
    {"Translated", "ExtractedNoTranslation", "NoTextFound", "ExtractionError", "Unsupported"}

Outcome ==
    IF extraction.extractor = "none" THEN "Unsupported"
    ELSE IF extraction.failed THEN "ExtractionError"
    ELSE IF ~Truthy(original_text) THEN "NoTextFound"
    ELSE IF Truthy(translation_info) THEN "Translated"
    ELSE "ExtractedNoTranslation"

(* C1: a cycle that selected a file and ended as Translated,
   ExtractedNoTranslation, NoTextFound, ExtractionError or Unsupported has
   called os.rename on that file exactly once, and no cycle calls it more
   than once or without a selected file. *)
C1_ArchiveAttemptedOncePerCycle ==
    /\ move_attempts <= 1
    /\ ~Selected => move_attempts = 0
    /\ \A kind \in OutcomeKinds :
           (Returned /\ Selected /\ Outcome = kind) =>
               /\ move_attempts = 1
               /\ move_result \in {"moved", "failed"}
               /\ Count(reports, "moved") + Count(reports, "move_error") = 1

C1_Witness ==
    /\ Returned
    /\ Selected
    /\ Outcome = "ExtractionError"
    /\ move_attempts = 1

(* a listing of the folder can put the file first among the regular files *)
Eligible(name) ==
    \E listing \in Listings : Filter(listing) /= <<>> /\ SelectFile(Filter(listing)) = name

(* C2: after a successful move the file is in the processed folder, is not
   in the watch folder and no scan can select it, until a file of that name
   is dropped again; after a failed move the file is still in the watch
   folder and a scan can select it; a file in processing is never one that
   was archived. *)
C2_AfterTheMove ==
    /\ \A name \in archived :
           name \in processed /\ name \notin watch /\ ~Eligible(name)
    /\ move_result = "moved" => filename \in processed
    /\ move_result = "failed" => filename \in watch /\ Eligible(filename)
    /\ InFlight => filename \in watch /\ filename \notin archived

C2_TheMove ==
    move_attempts' = move_attempts + 1 =>
        /\ move_result' = "moved" =>
               /\ filename \in watch /\ filename \notin watch'
               /\ filename \in processed' /\ filename \in archived'
               /\ ~Eligible(filename)'
        /\ move_result' = "failed" =>
               /\ filename \in watch' /\ watch' = watch /\ processed' = processed
               /\ Eligible(filename)'

C2_MovedFilesLeaveFailedFilesStay == [](C2_AfterTheMove) /\ [][C2_TheMove]_vars

C2_Witness ==
    /\ archived /= {}
    /\ InFlight
    /\ filename \notin archived
    /\ watch \cap processed = {}

(* C3: a call of process_files_in_folder selects at most one file, exactly
   one when the listing holds regular files, also when it holds several; the
   file in processing is that one file; when the call returns its report and
   its move attempt are done, and a scan starts only when no file is in
   processing. *)
C3_OneFilePerCycle ==
    /\ Len(taken) <= 1
    /\ InFlight => taken = <<filename>> /\ filename \in Range(files)
    /\ (Returned /\ files /= <<>>) =>
           /\ Len(taken) = 1
           /\ taken[1] \in Range(files)
           /\ move_attempts = 1
           /\ Has(reports, "no_text") \/ Has(reports, "original_text")
    /\ pc = "loop" => taken = <<>> /\ move_attempts = 0

C3_Witness ==
    /\ Returned
    /\ Cardinality(Range(files)) >= 2
    /\ Len(taken) = 1
    /\ move_attempts = 1

(* C4: the process exits only between cycles: an interrupt that arrives
   after a file was selected lets the cycle finish, move attempt included,
   before the process exits. *)
C4_InterruptLetsTheCycleFinish ==
    pc = "exited" =>
        /\ stoppedAt \in {"sleep", "loop"}
        /\ Selected => move_attempts = 1

(* C5: no failure of the OCR engine, of decoding, of the translation
   service, of reading, listing or moving, and no unsupported format ends
   the process; only the interrupt does. *)
C5_OnlyTheInterruptEndsTheProcess ==
    /\ pc /= "crashed"
    /\ ~Running => stoppedAt /= "none"

(* C6: an extractor that fails returns an empty result (None or "") and
   raises nothing; the cycle then goes on as for a file without text: the
   translator is not called, nothing but 'no text' is reported after the
   extractor's own messages, and the move is attempted. *)
C6_ExtractorFailureIsNoText ==
    extraction.failed =>
        /\ ~extraction.raised
        /\ pc /= "crashed"
        /\ ~Truthy(original_text)
        /\ translate_calls = 0
        /\ translation_info = None
        /\ ~Has(reports, "original_text")
        /\ pc = "archive" => reports[Len(reports)] = "no_text"
        /\ Returned =>
               /\ move_attempts = 1
               /\ Count(reports, "no_text") = 1
               /\ reports[Len(reports) - 1] = "no_text"
               /\ reports[Len(reports)] \in {"moved", "move_error"}

C6_Witness ==
    /\ Returned
    /\ extraction.failed
    /\ extraction.extractor = "read_text_from_file"
    /\ move_attempts = 1

(* C7: a cycle calls the translation service at most once and only with a
   non-empty text; translate_text_to_english returns None for None and for
   the empty text without calling the service. *)
C7_TranslatesOnlyText ==
    /\ translate_calls <= 1
    /\ translate_calls = 1 => Truthy(original_text)
    /\ ~Truthy(original_text) => translate_calls = 0 /\ translation_info = None
    /\ Has(reports, "no_text") => translate_calls = 0
    /\ \A service \in ServiceOutcomes, text \in {None, <<>>} :
           /\ translate_text_to_english(text, service).info = None
           /\ translate_text_to_english(text, service).calls = 0

C7_Witness ==
    /\ pc = "archive"
    /\ ~extraction.failed
    /\ original_text = <<>>
    /\ translate_calls = 0
    /\ Has(reports, "no_text")

(* one call of extract_text_from_pdf on a document that opened *)
PdfCallReturned ==
    /\ pc = "returned"
    /\ extraction.extractor = "extract_text_from_pdf"
    /\ content.err = "none"

Pages == content.pages

HasDirectText(i) == Pages[i].direct /= Raises

(* C8 as stated: for every page, rasterization and OCR are invoked exactly
   once when the text page.get_text() returned has fewer than 20 characters
   and never when it has 20 or more. *)
C8_OcrExactlyForShortPages ==
    PdfCallReturned =>
        \A i \in 1..Len(Pages) :
            HasDirectText(i) =>
                /\ Len(Pages[i].direct) < OcrThreshold =>
                       /\ Count(extraction.raster_calls, i) = 1
                       /\ Count(extraction.ocr_calls, i) = 1
                /\ Len(Pages[i].direct) >= OcrThreshold =>
                       /\ Count(extraction.raster_calls, i) = 0
                       /\ Count(extraction.ocr_calls, i) = 0

Trimmed(i) == Strip(Pages[i].direct)

Short(i) == Len(Trimmed(i)) < OcrThreshold

(* the call on page i raises: get_text does, or the rasterization of a short page *)
Abandons(i) == ~HasDirectText(i) \/ (Short(i) /\ ~Pages[i].raster)

Reached(i) == \A j \in 1..(i - 1) : ~Abandons(j)

OcrText(i) == IF Pages[i].ocr.err = "none" THEN Strip(Pages[i].ocr.text) ELSE <<>>

PageText(i) == IF Short(i) THEN OcrText(i) ELSE Trimmed(i)

(* C8 amended: for every page the loop reaches and whose get_text() returns,
   the length tested is that of the text stripped of surrounding whitespace:
   below 20, the page is rasterized exactly once and, when that succeeds,
   passed to OCR exactly once; at 20 or more neither happens and the
   stripped text is the page's text.  A page after one that raised is not
   touched, and a document none of whose pages raises yields the page texts
   joined by newlines and stripped. *)
C8_OcrExactlyForShortStrippedPages ==
    PdfCallReturned =>
        /\ \A i \in 1..Len(Pages) :
               IF Reached(i) /\ HasDirectText(i)
               THEN IF Short(i)
                    THEN /\ Count(extraction.raster_calls, i) = 1
                         /\ Count(extraction.ocr_calls, i) = (IF Pages[i].raster THEN 1 ELSE 0)
                    ELSE /\ Count(extraction.raster_calls, i) = 0
                         /\ Count(extraction.ocr_calls, i) = 0
               ELSE /\ Count(extraction.raster_calls, i) = 0
                    /\ Count(extraction.ocr_calls, i) = 0
        /\ IF \A i \in 1..Len(Pages) : ~Abandons(i)
           THEN /\ ~extraction.failed
                /\ extraction.text = Strip(Join([i \in 1..Len(Pages) |-> PageText(i)]))
           ELSE /\ extraction.failed
                /\ extraction.text = None

C8_Witness ==
    /\ PdfCallReturned
    /\ Len(Pages) = 2
    /\ Len(Trimmed(1)) = OcrThreshold
    /\ Len(Pages[2].direct) > OcrThreshold
    /\ Short(2)
    /\ extraction.ocr_calls = <<2>>
    /\ ~extraction.failed

(* the extractor the extension of each name stands for, whatever its case *)
ExpectedBranch(name) ==
    CASE name \in {n_png, n_jpg, n_Jpeg, n_tiff, n_bmp, n_GIF} -> "image"
      [] name = n_txt -> "text"
      [] name \in {n_pdf, n_PDF, n_two} -> "pdf"
      [] name = n_docx -> "docx"
      [] name = n_pptx -> "pptx"
      [] name \in {n_xyz, n_noext, n_dotfile} -> "unsupported"

ExtractorOf(branch) ==
    CASE branch = "image" -> "extract_text_from_image"
      [] branch = "text" -> "read_text_from_file"
      [] branch = "pdf" -> "extract_text_from_pdf"
      [] branch = "docx" -> "extract_text_from_docx"
      [] branch = "pptx" -> "extract_text_from_pptx"
      [] branch = "unsupported" -> "none"

(* lines 138-156 have run in the cycle on record *)
Dispatched == Len(reports) >= 2 /\ reports[1] = "found"

(* C9: the branch taken and the one extractor called are those of the
   extension of the file name, compared without regard to case; for any
   other extension no extractor and no translation is called, nothing is
   raised, the file is reported unsupported and the move is attempted. *)
C9_DispatchByExtension ==
    Dispatched =>
        /\ reports[2] = ExpectedBranch(filename)
        /\ extraction.extractor = ExtractorOf(ExpectedBranch(filename))
        /\ ExpectedBranch(filename) = "unsupported" =>
               /\ content = NoContent
               /\ extraction = [NotExtracted EXCEPT !.reports = <<"unsupported">>]
               /\ translate_calls = 0
               /\ pc /= "crashed"
               /\ Returned => move_attempts = 1 /\ reports[3] = "no_text"
        /\ ExpectedBranch(filename) /= "unsupported" => content /= NoContent

C9_Witness ==
    /\ Returned
    /\ Dispatched
    /\ filename = n_PDF
    /\ extraction.extractor = "extract_text_from_pdf"
    /\ move_attempts = 1

(* C10: two successive scans that see the same set of files select the
   same file. *)
C10_SameFilesSameChoice ==
    [][(pc = "loop" /\ pc' = "dispatch" /\ filename /= None /\ Range(files') = Range(files))
           => filename' = filename]_vars


(* the position of the first x in seq, 0 when it has none *)
First(seq, x) ==
    IF Has(seq, x) THEN CHOOSE i \in 1..Len(seq) : seq[i] = x /\ \A j \in 1..(i - 1) : seq[j] /= x
    ELSE 0

(* C11: when the translation service fails on a non-empty text,
   translate_text_to_english returns None and nothing is raised, the
   original text was printed before the failure, no translation is printed,
   and the cycle goes on to its one move attempt. *)
C11_TranslationFailureIsNotFatal ==
    Has(reports, "translation_failed") =>
        /\ translation_info = None
        /\ translate_calls = 1
        /\ Truthy(original_text)
        /\ pc \in {"archive", "sleep", "exited"}
        /\ Count(reports, "original_text") = 1
        /\ First(reports, "original_text") < First(reports, "translation_failed")
        /\ ~Has(reports, "translated_text")
        /\ ~Has(reports, "no_text")
        /\ pc = "archive" => move_attempts = 0
        /\ Returned => move_attempts = 1 /\ move_result \in {"moved", "failed"}

C11_Witness ==
    /\ Returned
    /\ Has(reports, "translation_failed")
    /\ Has(reports, "original_text")
    /\ move_attempts = 1


(* a pdf, docx or pptx call that returned and met no exception *)
MultiUnitCall ==
    /\ pc = "returned"
    /\ extraction.extractor \in
           {"extract_text_from_pdf", "extract_text_from_docx", "extract_text_from_pptx"}

Opened == content.err = "none"

Completes ==
    /\ Opened
    /\ extraction.extractor = "extract_text_from_pdf" => \A i \in 1..Len(Pages) : ~Abandons(i)

(* the text-bearing shapes of the deck, by slide and by place in the slide *)
TextShapes ==
    {p \in (1..MaxSlides) \X (1..MaxShapes) :
        /\ p[1] <= Len(content.slides)
        /\ p[2] <= Len(content.slides[p[1]])
        /\ content.slides[p[1]][p[2]].has_text}

NotAfter(p, q) == p[1] < q[1] \/ (p[1] = q[1] /\ p[2] <= q[2])

Rank(p) == Cardinality({q \in TextShapes : NotAfter(q, p)})

DeckTexts ==
    [k \in 1..Cardinality(TextShapes) |->
        LET p == CHOOSE q \in TextShapes : Rank(q) = k
        IN  content.slides[p[1]][p[2]].text]

(* the per-unit texts of the document, in source order *)
UnitTexts ==
    CASE extraction.extractor = "extract_text_from_pdf" ->
             [i \in 1..Len(Pages) |-> PageText(i)]
      [] extraction.extractor = "extract_text_from_docx" -> content.paras
      [] extraction.extractor = "extract_text_from_pptx" -> DeckTexts

(* C12 as stated: the text a multi-unit extractor returns is the per-unit
   texts in source order with a newline between consecutive units. *)
C12_UnitsJoinedByNewlines ==
    (MultiUnitCall /\ Completes) => extraction.text = Join(UnitTexts)

(* C12 amended: the text a multi-unit extractor returns is the per-unit
   texts in source order (pdf pages: the stripped direct text or the OCR
   text; docx paragraphs; pptx text-bearing shapes slide by slide, shapes
   without text skipped) with a newline between consecutive units, and then
   stripped of leading and trailing whitespace as a whole; when the document
   cannot be opened or a page raises, the text is None instead. *)
C12_UnitsJoinedByNewlinesThenStripped ==
    MultiUnitCall =>
        IF Completes
        THEN /\ ~extraction.failed
             /\ extraction.text = Strip(Join(UnitTexts))
        ELSE /\ extraction.failed
             /\ extraction.text = None

C12_Witness ==
    /\ MultiUnitCall
    /\ Completes
    /\ extraction.extractor = "extract_text_from_pptx"
    /\ Len(content.slides) = 2
    /\ Len(UnitTexts) = 2
    /\ UnitTexts[1] /= UnitTexts[2]
    /\ \E i \in 1..2 : \E j \in 1..Len(content.slides[i]) : ~content.slides[i][j].has_text
    /\ extraction.text = Strip(Join(UnitTexts))
    /\ extraction.text /= Join(UnitTexts)
    /\ Has(extraction.text, NL)


(* a cycle that returned after a listing that held no regular file *)
NoFileCycle == Returned /\ ~Selected /\ ~Has(reports, "watch_folder_not_found")

C13_AfterTheScan ==
    NoFileCycle =>
        /\ reports = <<>>
        /\ files = <<>>
        /\ content = NoContent
        /\ extraction = NotExtracted
        /\ translation_info = None
        /\ translate_calls = 0
        /\ move_attempts = 0
        /\ move_result = "none"

(* the scan of a folder without regular files, the listing having returned or
   the folder being reported missing; and any scan that ends its cycle *)
C13_TheScan ==
    /\ (pc = "loop" /\ watch = {} /\ pc' \notin {"loop", "crashed", "exited"}) =>
           /\ pc' = "sleep"
           /\ taken' = <<>>
           /\ UNCHANGED <<watch, processed, archived>>
    /\ (pc = "loop" /\ pc' = "sleep") =>
           /\ UNCHANGED <<watch, processed, archived>>
           /\ reports' = <<>> => watch = {}

(* C13: a scan that finds no regular file in the watch folder (the folder is
   empty or holds only directories such as processed) ends the cycle at once:
   no file is selected, no extractor, translator or move is called, nothing
   is printed, and the watch and processed folders keep their contents. *)
C13_EmptyScanHasNoEffect == [](C13_AfterTheScan) /\ [][C13_TheScan]_vars

(* an empty scan after a file was archived: processed is listed and passed over *)
C13_Witness ==
    /\ pc = "sleep"
    /\ NoFileCycle
    /\ watch = {}
    /\ processed /= {}


(* the move of the selected file has just failed *)
MoveFailed == pc = "sleep" /\ move_result = "failed"

(* C14 as stated: a file whose move failed is selected again by a later
   cycle, which dispatches it anew. *)
C14_FailedFileIsSelectedAgain ==
    \A name \in Names :
        (MoveFailed /\ filename = name) ~> (pc = "dispatch" /\ filename = name)

NoMoveFails == move_result /= "failed"

(* C16: in a run without interrupt where the listing succeeds and no file is
   added, if the moves fail only finitely many times then the watch folder
   ends up, and stays, without regular files, and no file left the watch
   folder other than into processed. *)
C16_EveryFileIsArchived ==
    /\ (<>[]NoMoveFails) => <>[](watch = {})
    /\ [][watch' \subseteq watch /\ (watch \ watch') \subseteq (processed' \ processed)]_vars

C16_Witness ==
    /\ pc = "sleep"
    /\ watch = {}
    /\ processed = InitialNames
    /\ move_result = "moved"


(* a cycle that returned after reporting the watch folder missing *)
MissingFolderCycle == Returned /\ Has(reports, "watch_folder_not_found")

C15_AfterTheReport ==
    MissingFolderCycle =>
        /\ reports = <<"watch_folder_not_found">>
        /\ ~Selected
        /\ files = <<>>
        /\ extraction = NotExtracted
        /\ translate_calls = 0
        /\ move_attempts = 0
        /\ pc = "sleep" => ENABLED Wake

(* a cycle started on a folder that holds files and, no Ctrl+C arriving, ended
   before dispatch *)
C15_TheEarlyEnd ==
    (pc = "loop" /\ watch /= {} /\ pc' \notin {"loop", "dispatch"} /\ stoppedAt' = stoppedAt) =>
        /\ pc' = "sleep"
        /\ reports' = <<"watch_folder_not_found">>
        /\ UNCHANGED <<watch, processed>>

(* C15 as stated: a cycle that finds the watch folder missing reports it and
   ends without selecting, extracting, translating or moving, and the process
   stays in its loop so that a later cycle takes the files; and nothing else
   ends the cycle of a folder with files before dispatch. *)
C15_OnlyAMissingFolderEndsTheCycleEarly ==
    [](C15_AfterTheReport) /\ [][C15_TheEarlyEnd]_vars


(* the name is that of a file of the watch folder and of a file of processed *)
Collides(name) == name \in watch /\ name \in processed

(* the pipeline has run on the selected file up to the move *)
C17_BeforeTheMove ==
    (pc = "archive" /\ Collides(filename)) =>
        /\ Dispatched
        /\ reports[2] = ExpectedBranch(filename)
        /\ extraction.extractor = ExtractorOf(ExpectedBranch(filename))
        /\ translate_calls = (IF Truthy(original_text) THEN 1 ELSE 0)
        /\ Has(reports, "original_text") <=> Truthy(original_text)
        /\ Has(reports, "no_text") <=> ~Truthy(original_text)
        /\ move_attempts = 0

C17_TheCollidingMove ==
    /\ (pc = "archive" /\ pc' = "sleep" /\ Collides(filename)) =>
           /\ move_attempts' = 1
           /\ move_result' = "failed"
           /\ reports' = Append(reports, "move_error")
           /\ UNCHANGED <<watch, processed, archived, filename>>
    /\ \A name \in Names : Collides(name) => Collides(name)'

(* C17: when processed already holds a file of the selected file's name,
   os.rename (Windows) fails: processed keeps what it held, the selected file
   stays in the watch folder, and the collision never goes away, so every
   cycle that selects the file runs the whole pipeline on it and fails at the
   move again. *)
C17_CollisionRepeatsWithoutBound ==
    [](C17_BeforeTheMove) /\ [][C17_TheCollidingMove]_vars

C17_Witness ==
    /\ pc = "sleep"
    /\ Collides(filename)
    /\ filename \notin archived
    /\ taken = <<filename>>
    /\ Truthy(original_text)
    /\ translate_calls = 1
    /\ move_attempts = 1
    /\ move_result = "failed"


(* the selected file is a regular file of the watch folder, never a directory *)
C18_TheSelectedFile ==
    /\ InFlight =>
           /\ filename \in watch
           /\ filename /= ProcessedDirName
           /\ taken = <<filename>>
    /\ ProcessedDirName \notin watch \cup processed

(* a step of the program: the successful move, or any other *)
C18_TheStep ==
    drops' = drops =>
        IF pc = "archive" /\ pc' = "sleep" /\ move_result' = "moved"
        THEN /\ filename \in watch
             /\ filename' = filename
             /\ watch' = watch \ {filename}
             /\ processed' = processed \cup {filename}
        ELSE /\ watch' = watch
             /\ processed' = processed

(* C18: the program changes the two folders only by the successful move of
   the selected file, which leaves the watch folder and appears in processed
   under the same name; scanning, dispatch, extraction, translation,
   printing, a failed move and the delay change neither folder, and no other
   file and no directory is ever selected or moved. *)
C18_OnlyTheMoveChangesTheFolders ==
    [](C18_TheSelectedFile) /\ [][C18_TheStep]_vars

C18_Witness ==
    /\ pc = "sleep"
    /\ move_result = "moved"
    /\ filename = n_PDF
    /\ n_PDF \in processed
    /\ n_PDF \notin watch
    /\ watch /= {}

====
